---- MODULE Spec2Model ----
(***************************************************************************)
(* Vehicle-Parking-App: lots, spots and bookings kept in an SQLite         *)
(* database, operated on by the request handlers of the two deployable     *)
(* applications of the repository: the package parking_app                 *)
(* (parking_app/controllers.py with parking_app/models.py) and the         *)
(* single-file application app.py.  The variable impl says which of the    *)
(* two is deployed; it never changes.                                      *)
(*                                                                         *)
(* Time is counted in minutes.  Money is counted in hundredths (the code   *)
(* rounds a cost to two decimals).  A nullable column holds <<>> for NULL  *)
(* and <<v>> for the value v.  A spot number is the sequence of the        *)
(* characters of the string the code stores ("S12" is <<"S","1","2">>).    *)
(***************************************************************************)
EXTENDS Integers, Sequences, FiniteSets, TLC

\* ---------------------------------------------------------------- bounds
\* The requests of a specification draw their inputs from a record of
\* finite sets and limits.
NumUsers == 2
MaxLotId == 2
MaxSpotId == 3
MaxBookingId == 2
MaxCap == 2

Impls == {"controllers", "app"}

\* The form an admin submits for a lot: one form per lot id, differing in
\* every column.
LotForm(l) ==
    IF l = 1
    THEN [name |-> "n1", address |-> "a1", pincode |-> "p1", price |-> 60]
    ELSE [name |-> "n2", address |-> "a2", pincode |-> "p2", price |-> 90]

\* The same form with a price of 0: float() accepts it.
FreeForm(l) == [LotForm(l) EXCEPT !.price = 0]

\* Clock readings, in minutes.
Times == {0}

\* A single lot, more users, spots and bookings.
DeepUsers == 3
DeepSpotId == 4
DeepBookingId == 4
DeepCap == 3

\* How far below 0 the capacity of a form goes: int() accepts a negative
\* number.
BelowZero == 1

\* The spot ordinals the numbering functions are applied to: 1 ..
\* MaxOrdinal and the ordinals around the next changes of digit count.
MaxOrdinal == 12
Ordinals == (1..MaxOrdinal) \cup {99, 100, 101, 999, 1000}

\* A single lot of up to three spots under both applications.
WideCap == 3
WideUsers == 3
WideSpotId == 4
WideBookingId == 3

\* Clock readings that differ, in minutes, in whatever order the requests
\* see them (the clock can be set back).
MaxClock == 100
ClockReadings == {0, 45, MaxClock}

\* The request handlers that run at the same time.
NumThreads == 2
Threads == 1..NumThreads

\* forms[l]: the forms submitted to create or edit the lot with id l.
\* strangers: whether a Release is also asked for a booking id that does not
\* exist or by a user who does not own the booking.
Core ==
    [users |-> 1..NumUsers, maxLot |-> MaxLotId, maxSpot |-> MaxSpotId,
     maxBooking |-> MaxBookingId, caps |-> 0..MaxCap,
     forms |-> [l \in 1..(MaxLotId + 1) |-> {LotForm(l)}],
     times |-> Times, strangers |-> TRUE]

Deep ==
    [users |-> 1..DeepUsers, maxLot |-> 1, maxSpot |-> DeepSpotId,
     maxBooking |-> DeepBookingId, caps |-> 1..DeepCap,
     forms |-> [l \in 1..2 |-> {LotForm(l)}],
     times |-> Times, strangers |-> FALSE]

\* ------------------------------------------------------------- constants
\* Asia/Kolkata is UTC+05:30; the DateTime column drops the zone and keeps
\* the wall-clock reading.
IstOffset == 330
MinutesPerHour == 60

\* --------------------------------------------------------------- helpers
None == <<>>
Some(x) == <<x>>

MaxOf(S) == CHOOSE x \in S : \A y \in S : y <= x
MinOf(S) == CHOOSE x \in S : \A y \in S : x <= y

Restrict(f, S) == [x \in S |-> f[x]]

\* INTEGER PRIMARY KEY of SQLite without AUTOINCREMENT: the new row gets the
\* largest row id in the table plus one.
NextRowId_first(ids) == 1
NextRowId(ids) == IF ids = {} THEN 1 ELSE MaxOf(ids) + 1

RECURSIVE SetToSeqAsc(_)
SetToSeqAsc(S) ==
    IF S = {} THEN <<>>
    ELSE LET m == MinOf(S) IN <<m>> \o SetToSeqAsc(S \ {m})

\* list.sort(key=...) on a list given as <<key, item>> pairs: stable,
\* ascending by key.
RECURSIVE InsertByKey(_, _)
InsertByKey(sorted, p) ==
    IF sorted = <<>> THEN <<p>>
    ELSE IF p[1] < Head(sorted)[1] THEN <<p>> \o sorted
    ELSE <<Head(sorted)>> \o InsertByKey(Tail(sorted), p)

RECURSIVE SortByKey(_)
SortByKey(pairs) ==
    IF pairs = <<>> THEN <<>>
    ELSE LET n == Len(pairs)
         IN InsertByKey(SortByKey(SubSeq(pairs, 1, n - 1)), pairs[n])

\* list.sort(key=..., reverse=True): descending by key, equal keys keep
\* their original order.
RECURSIVE InsertByKeyDesc(_, _)
InsertByKeyDesc(sorted, p) ==
    IF sorted = <<>> THEN <<p>>
    ELSE IF p[1] > Head(sorted)[1] THEN <<p>> \o sorted
    ELSE <<Head(sorted)>> \o InsertByKeyDesc(Tail(sorted), p)

RECURSIVE SortByKeyDesc(_)
SortByKeyDesc(pairs) ==
    IF pairs = <<>> THEN <<>>
    ELSE LET n == Len(pairs)
         IN InsertByKeyDesc(SortByKeyDesc(SubSeq(pairs, 1, n - 1)), pairs[n])

Items(pairs) == [i \in 1..Len(pairs) |-> pairs[i][2]]

SeqRange(seq) == {seq[i] : i \in 1..Len(seq)}

\* -------------------------------------------------------- spot numbering
DigitChars == <<"0", "1", "2", "3", "4", "5", "6", "7", "8", "9">>
IsDigit(c) == \E i \in 1..10 : DigitChars[i] = c
DigitValue(c) == (CHOOSE i \in 1..10 : DigitChars[i] = c) - 1

\* str(n) of a Python int.
RECURSIVE DecStr(_)
DecStr(n) ==
    IF n < 0 THEN <<"-">> \o DecStr(0 - n)
    ELSE IF n < 10 THEN <<DigitChars[n + 1]>>
    ELSE DecStr(n \div 10) \o <<DigitChars[(n % 10) + 1]>>

\* str.upper() on the characters a spot number can hold.
UpperChar(c) == IF c = "s" THEN "S" ELSE c
Upper(s) == [i \in 1..Len(s) |-> UpperChar(s[i])]

\* str.replace('S', '')
RECURSIVE RemoveS(_)
RemoveS(s) ==
    IF s = <<>> THEN <<>>
    ELSE IF Head(s) = "S" THEN RemoveS(Tail(s))
    ELSE <<Head(s)>> \o RemoveS(Tail(s))

RECURSIVE DigitsValue(_)
DigitsValue(s) ==
    IF s = <<>> THEN 0
    ELSE DigitsValue(SubSeq(s, 1, Len(s) - 1)) * 10 + DigitValue(s[Len(s)])

AllDigits(s) == s # <<>> /\ \A i \in 1..Len(s) : IsDigit(s[i])

\* int(text): None stands for ValueError.
ParseInt(s) ==
    IF AllDigits(s) THEN Some(DigitsValue(s))
    ELSE IF s # <<>> /\ Head(s) = "-" /\ AllDigits(Tail(s))
         THEN Some(0 - DigitsValue(Tail(s)))
    ELSE None

\* format_spot_number; the argument is tagged with its Python type,
\* <<"int", n>> or <<"str", s>>.
format_spot_number(number) ==
    IF number[1] = "int" THEN <<"S">> \o DecStr(number[2])
    ELSE LET num == ParseInt(RemoveS(Upper(number[2])))
         IN IF num # None THEN <<"S">> \o DecStr(num[1])
            ELSE <<"S">> \o number[2]

\* get_spot_number of controllers.py: the numeric part, 0 when it does not
\* parse.
get_spot_number_zero(spot_number) == 0
get_spot_number(spot_number) ==
    LET num == ParseInt(RemoveS(Upper(spot_number)))
    IN IF num # None THEN num[1] ELSE 0

\* int(x.spot_number[1:]) of app.py; None stands for ValueError.
ParseTail(spot_number) ==
    IF spot_number = <<>> THEN None ELSE ParseInt(Tail(spot_number))


\* round(x, 2) of the exact quotient num / den, in hundredths: to the
\* nearest, a tie to the even neighbour.
RoundHalfEven(num, den) ==
    LET q == num \div den
        r == num - q * den
    IN IF 2 * r < den THEN q
       ELSE IF 2 * r > den THEN q + 1
       ELSE IF q % 2 = 0 THEN q ELSE q + 1

\* ----------------------------------------------------------------- state
VARIABLES
    impl,       \* the deployed application: "controllers" or "app"
    lots,       \* table parking_lot: id -> row
    spots,      \* table parking_spot: id -> row
    bookings,   \* table booking: id -> row
    last,       \* the last request served and the answer it gave
    reqs        \* the requests in flight: handler thread -> its position
                \* in the handler and its local values

vars == <<impl, lots, spots, bookings, last, reqs>>

\* user: the logged-in user of a Reserve or Release; lot: the lot id in the
\* URL of a lot request or a Reserve; booking: the booking id in the URL of
\* a Release.  0 where the request has no such part.  removed, added: the
\* ids of the spot rows the request deleted and inserted.
Answer(op, result, user, lot, booking, removed, added) ==
    [op |-> op, result |-> result, user |-> user, lot |-> lot,
     booking |-> booking, removed |-> removed, added |-> added]

Reply(op, result, user, lot, booking) ==
    Answer(op, result, user, lot, booking, {}, {})

\* A handler thread that serves no request.  peers: the threads that were
\* serving a request when this one got its request.
Idle ==
    [op |-> "none", pc |-> "idle", user |-> 0, lot |-> 0, n |-> 0,
     form |-> <<>>, spot |-> 0, booking |-> 0, result |-> "none",
     loaded |-> <<>>, old_max |-> 0, victims |-> {}, orphans |-> {},
     peers |-> {}]

Init ==
    /\ impl \in Impls
    /\ lots = <<>>
    /\ spots = <<>>
    /\ bookings = <<>>
    /\ last = Reply("none", "none", 0, 0, 0)
    /\ reqs = [t \in Threads |-> Idle]

\* ------------------------------------------------------------ the tables
LotIds == DOMAIN lots
SpotIds == DOMAIN spots
BookingIds == DOMAIN bookings

\* Parking_spot.query.filter_by(parking_lot_id=l): the ids of the rows.
LotSpots(l) == {s \in SpotIds : spots[s].parking_lot_id = l}
\* Parking_spot.query.filter_by(parking_lot_id=l, status=st)
LotSpotsWith(l, st) == {s \in LotSpots(l) : spots[s].status = st}
\* .all() of an unordered query: SQLite scans the table in row id order.
QueryAll(S) == SetToSeqAsc(S)
\* .first() of an unordered query: the row with the lowest row id.
QueryFirst_highest(S) == IF S = {} THEN None ELSE Some(MaxOf(S))
QueryFirst(S) == IF S = {} THEN None ELSE Some(MinOf(S))

\* A booking is active while out_time is NULL.
IsActive(b) == bookings[b].out_time = None
ActiveBookings == {b \in BookingIds : IsActive(b)}
ActiveOfUser(u) == {b \in ActiveBookings : bookings[b].user_id = u}
ActiveOfSpot(s) == {b \in ActiveBookings : bookings[b].parking_spot_id = s}
\* Parking_spot.bookings, the relationship with cascade "all, delete-orphan"
BookingsOfSpots_none(S) == {}
BookingsOfSpots(S) == {b \in BookingIds : bookings[b].parking_spot_id \in S}

NewSpot_taken(l, number) ==
    [parking_lot_id |-> l, spot_number |-> number, status |-> "O",
     user_id |-> None]
NewSpot(l, number) ==
    [parking_lot_id |-> l, spot_number |-> number, status |-> "A",
     user_id |-> None]

\* The name and address columns of app.py are unique=True; those of
\* parking_app/models.py are not.
UniqueViolation(l, name, address) ==
    /\ impl = "app"
    /\ \E k \in LotIds \ {l} :
          lots[k].name = name \/ lots[k].address = address

\* ------------------------------------------------------------- CreateLot
create_parking_lot(name, address, pincode, price, cap) ==
    LET l == NextRowId(LotIds)
        first == NextRowId(SpotIds)
        n == IF cap < 0 THEN 0 ELSE cap
        number(i) == IF impl = "controllers"
                     THEN format_spot_number(<<"int", i>>)
                     ELSE <<"S">> \o DecStr(i)
    IN IF UniqueViolation(l, name, address)
          THEN /\ last' = Reply("CreateLot", "IntegrityError", 0, l, 0)
               /\ UNCHANGED <<impl, lots, spots, bookings>>
          ELSE /\ lots' = (l :> [name |-> name, address |-> address,
                                 pincode |-> pincode,
                                 price_per_hour |-> price,
                                 max_no_spots |-> cap]) @@ lots
               /\ spots' = [s \in first..(first + n - 1) |->
                               NewSpot(l, number(s - first + 1))] @@ spots
               /\ last' = Answer("CreateLot", "ok", 0, l, 0, {},
                                 first..(first + n - 1))
               /\ UNCHANGED <<impl, bookings>>

\* ------------------------------------------------------------- DeleteLot
delete_parking_lot(l) ==
    IF l \notin LotIds
    THEN /\ last' = Reply("DeleteLot", "NotFound", 0, l, 0)
         /\ UNCHANGED <<impl, lots, spots, bookings>>
    ELSE IF Cardinality(LotSpotsWith(l, "O")) > 0
    THEN /\ last' = Reply("DeleteLot", "LotHasOccupants", 0, l, 0)
         /\ UNCHANGED <<impl, lots, spots, bookings>>
    ELSE /\ lots' = Restrict(lots, LotIds \ {l})
         /\ spots' = Restrict(spots, SpotIds \ LotSpots(l))
         /\ bookings' = Restrict(bookings,
                                 BookingIds \ BookingsOfSpots(LotSpots(l)))
         /\ last' = Answer("DeleteLot", "ok", 0, l, 0, LotSpots(l), {})
         /\ UNCHANGED impl

\* --------------------------------------------------------------- Reserve
\* The spot the handler picks: Parking_spot.query.filter_by(...).first()
FirstAvailable_any_status(l) == QueryFirst(LotSpots(l))
FirstAvailable(l) == QueryFirst(LotSpotsWith(l, "A"))

\* Booking.query.filter_by(user_id=current_user.id, out_time=None).first()
HasActiveBooking_never(u) == FALSE
HasActiveBooking(u) == ActiveOfUser(u) # {}

reserve_spot(u, l, now) ==
    IF HasActiveBooking(u)
    THEN /\ last' = Reply("Reserve", "AlreadyParked", u, l, 0)
         /\ UNCHANGED <<impl, lots, spots, bookings>>
    ELSE IF l \notin LotIds
    THEN /\ last' = Reply("Reserve", "NotFound", u, l, 0)
         /\ UNCHANGED <<impl, lots, spots, bookings>>
    ELSE IF FirstAvailable(l) = None
    THEN /\ last' = Reply("Reserve", "LotFull", u, l, 0)
         /\ UNCHANGED <<impl, lots, spots, bookings>>
    ELSE LET s == FirstAvailable(l)[1]
             b == NextRowId(BookingIds)
         IN /\ spots' = [spots EXCEPT ![s].status = "O",
                                      ![s].user_id = Some(u)]
            /\ bookings' = (b :> [user_id |-> u, parking_lot_id |-> l,
                                  parking_spot_id |-> s,
                                  in_time |-> now + IstOffset,
                                  out_time |-> None, cost |-> None])
                           @@ bookings
            /\ last' = Reply("Reserve", "ok", u, l, 0)
            /\ UNCHANGED <<impl, lots>>

\* --------------------------------------------------------------- Release
\* controllers.py: out_time is datetime.utcnow(), in_time the wall-clock
\* reading of Asia/Kolkata the column kept; the two are subtracted as they
\* are.  app.py: both are readings of Asia/Kolkata, and the duration is
\* clamped at 0.
OutTime(now) == IF impl = "controllers" THEN now ELSE now + IstOffset

DurationMinutes_unclamped(in_time, out_time) == out_time - in_time
DurationMinutes(in_time, out_time) ==
    IF impl = "controllers" THEN out_time - in_time
    ELSE IF out_time - in_time < 0 THEN 0 ELSE out_time - in_time

\* round(duration_hours * lot.price_per_hour, 2), in hundredths
Cost(in_time, out_time, price) ==
    RoundHalfEven(DurationMinutes(in_time, out_time) * price * 100,
                  MinutesPerHour)

\* booking.user_id != current_user.id
NotYourBooking_never(b, u) == FALSE
NotYourBooking(b, u) == bookings[b].user_id # u

\* spot.status = 'A'; spot.user_id = None
Vacated_keeps_occupant(s) == [spots EXCEPT ![s].status = "A"]
Vacated(s) == [spots EXCEPT ![s].status = "A", ![s].user_id = None]

release_spot(b, u, now) ==
    IF b \notin BookingIds
    THEN /\ last' = Reply("Release", "NotFound", u, 0, b)
         /\ UNCHANGED <<impl, lots, spots, bookings>>
    ELSE IF NotYourBooking(b, u)
    THEN /\ last' = Reply("Release", "NotYourBooking", u, 0, b)
         /\ UNCHANGED <<impl, lots, spots, bookings>>
    ELSE LET s == bookings[b].parking_spot_id
             l == bookings[b].parking_lot_id
             out == OutTime(now)
         IN /\ bookings' = [bookings EXCEPT
                  ![b].out_time = Some(out),
                  ![b].cost = Some(Cost(bookings[b].in_time, out,
                                        lots[l].price_per_hour))]
            /\ spots' = Vacated(s)
            /\ last' = Reply("Release", "ok", u, 0, b)
            /\ UNCHANGED <<impl, lots>>

\* ------------------------------------------------------------- ResizeLot
\* <<key, id>> pairs of a list of spot ids under get_spot_number.
Keyed(ids, tbl) ==
    [i \in 1..Len(ids) |-> <<get_spot_number(tbl[ids[i]].spot_number), ids[i]>>]

SelectSeq2(ids, tbl, st) ==
    SelectSeq(ids, LAMBDA s : tbl[s].status = st)

Renumber_skipped(tbl, l) == tbl
Renumber_descending(tbl, l) ==
    LET ids == QueryAll({s \in DOMAIN tbl : tbl[s].parking_lot_id = l})
        sorted == Items(SortByKey(Keyed(ids, tbl)))
        pos(s) == CHOOSE i \in 1..Len(sorted) : sorted[i] = s
    IN [s \in DOMAIN tbl |->
           IF s \in SeqRange(sorted)
           THEN [tbl[s] EXCEPT !.spot_number =
                    format_spot_number(<<"int", Len(sorted) + 1 - pos(s)>>)]
           ELSE tbl[s]]
\* controllers.py, the renumbering pass: the spots of the lot, sorted by
\* their current number, get S1, S2, ... in that order.
Renumber(tbl, l) ==
    LET ids == QueryAll({s \in DOMAIN tbl : tbl[s].parking_lot_id = l})
        sorted == Items(SortByKey(Keyed(ids, tbl)))
        pos(s) == CHOOSE i \in 1..Len(sorted) : sorted[i] = s
    IN [s \in DOMAIN tbl |->
           IF s \in SeqRange(sorted)
           THEN [tbl[s] EXCEPT !.spot_number =
                                   format_spot_number(<<"int", pos(s)>>)]
           ELSE tbl[s]]

\* controllers.py, new_max_spots > lot.max_no_spots: the numbers of the
\* lot are normalized, and the new spots are numbered after the highest.
GrowControllers(l, new_max_spots) ==
    LET current == LotSpots(l)
        normalized == [s \in SpotIds |->
                         IF s \in current
                         THEN [spots[s] EXCEPT !.spot_number =
                                  format_spot_number(<<"str", @>>)]
                         ELSE spots[s]]
        nums == {ParseInt(RemoveS(Upper(normalized[s].spot_number))) :
                    s \in current} \ {None}
        highest_number == MaxOf({0} \cup {n[1] : n \in nums})
        spots_to_add == new_max_spots - lots[l].max_no_spots
        first == NextRowId(SpotIds)
    IN [s \in first..(first + spots_to_add - 1) |->
           NewSpot(l, format_spot_number(
                          <<"int", highest_number + (s - first + 1)>>))]
       @@ normalized

\* controllers.py, new_max_spots < lot.max_no_spots: the spots to delete,
\* the highest-numbered available ones.
RemoveControllers(l, new_max_spots) ==
    LET all_spots == Items(SortByKey(Keyed(QueryAll(LotSpots(l)), spots)))
        occupied_spots == SelectSeq2(all_spots, spots, "O")
        available_spots == SelectSeq2(all_spots, spots, "A")
        available_spots_to_keep == new_max_spots - Len(occupied_spots)
        by_number_desc == Items(SortByKeyDesc(Keyed(available_spots, spots)))
    IN IF available_spots_to_keep < Len(available_spots)
       THEN SeqRange(SubSeq(by_number_desc, 1,
                MinOf({Len(available_spots),
                       Len(available_spots) - available_spots_to_keep})))
       ELSE {}

\* app.py, new_max_spots > lot.max_no_spots: spots S{max+1} .. S{new}.
GrowApp(l, new_max_spots) ==
    LET old == lots[l].max_no_spots
        first == NextRowId(SpotIds)
    IN [s \in first..(first + (new_max_spots - old) - 1) |->
           NewSpot(l, <<"S">> \o DecStr(old + 1 + (s - first)))]
       @@ spots

RemoveApp_any_status(l, new_max_spots) ==
    LET all_spots == QueryAll(LotSpots(l))
        keyed == [i \in 1..Len(all_spots) |->
                     <<ParseTail(spots[all_spots[i]].spot_number)[1],
                       all_spots[i]>>]
        sorted == Items(SortByKeyDesc(keyed))
    IN SeqRange(SubSeq(sorted, 1, lots[l].max_no_spots - new_max_spots))

\* app.py, new_max_spots < lot.max_no_spots: the first
\* (max_no_spots - new_max_spots) available spots, highest number first.
RemoveApp(l, new_max_spots) ==
    LET available_spots == QueryAll(LotSpotsWith(l, "A"))
        keyed == [i \in 1..Len(available_spots) |->
                     <<ParseTail(spots[available_spots[i]].spot_number)[1],
                       available_spots[i]>>]
        sorted == Items(SortByKeyDesc(keyed))
        spots_to_remove_count == lots[l].max_no_spots - new_max_spots
    IN SeqRange(SubSeq(sorted, 1,
           IF spots_to_remove_count < Len(sorted)
           THEN spots_to_remove_count ELSE Len(sorted)))

\* The spot table after the spot changes of edit_parking_lot.
ResizedSpots(l, new_max_spots) ==
    LET old == lots[l].max_no_spots
        added == IF new_max_spots > old
                 THEN IF impl = "controllers"
                      THEN GrowControllers(l, new_max_spots)
                      ELSE GrowApp(l, new_max_spots)
                 ELSE spots
        removed == IF new_max_spots < old
                   THEN IF impl = "controllers"
                        THEN RemoveControllers(l, new_max_spots)
                        ELSE RemoveApp(l, new_max_spots)
                   ELSE {}
        kept == Restrict(added, DOMAIN added \ removed)
    IN IF impl = "controllers" THEN Renumber(kept, l) ELSE kept

\* Parking_spot.query.filter_by(parking_lot_id=lot.id, status='O').count()
occupied_spots_none(l) == 0
occupied_spots(l) == Cardinality(LotSpotsWith(l, "O"))

edit_parking_lot(l, name, address, pincode, price, new_max_spots) ==
    IF l \notin LotIds
    THEN /\ last' = Reply("ResizeLot", "NotFound", 0, l, 0)
         /\ UNCHANGED <<impl, lots, spots, bookings>>
    ELSE IF impl = "app" /\ new_max_spots < 1
    THEN /\ last' = Reply("ResizeLot", "InvalidCapacity", 0, l, 0)
         /\ UNCHANGED <<impl, lots, spots, bookings>>
    ELSE IF new_max_spots < occupied_spots(l)
    THEN /\ last' = Reply("ResizeLot", "CapacityBelowOccupancy", 0, l, 0)
         /\ UNCHANGED <<impl, lots, spots, bookings>>
    ELSE IF UniqueViolation(l, name, address)
    THEN /\ last' = Reply("ResizeLot", "IntegrityError", 0, l, 0)
         /\ UNCHANGED <<impl, lots, spots, bookings>>
    ELSE LET after == ResizedSpots(l, new_max_spots)
         IN /\ lots' = [lots EXCEPT ![l] =
                           [name |-> name, address |-> address,
                            pincode |-> pincode, price_per_hour |-> price,
                            max_no_spots |-> new_max_spots]]
            /\ spots' = after
            /\ bookings' = Restrict(bookings,
                              BookingIds \ BookingsOfSpots(SpotIds \ DOMAIN after))
            /\ last' = Answer("ResizeLot", "ok", 0, l, 0,
                              SpotIds \ DOMAIN after, DOMAIN after \ SpotIds)
            /\ UNCHANGED impl

\* ------------------------------------------------------- the atomic model
\* Every request runs to completion before the next one starts.  B bounds
\* the inputs and the row ids.
Within(B) ==
    /\ DOMAIN lots' \subseteq 1..B.maxLot
    /\ DOMAIN spots' \subseteq 1..B.maxSpot
    /\ DOMAIN bookings' \subseteq 1..B.maxBooking

CreateLot(B) ==
    \E f \in B.forms[NextRowId(LotIds)], cap \in B.caps :
        /\ create_parking_lot(f.name, f.address, f.pincode, f.price, cap)
        /\ Within(B)
        /\ UNCHANGED reqs

DeleteLot(B) ==
    \E l \in 1..B.maxLot :
        delete_parking_lot(l) /\ Within(B) /\ UNCHANGED reqs

Reserve(B) ==
    \E u \in B.users, l \in 1..B.maxLot, now \in B.times :
        reserve_spot(u, l, now) /\ Within(B) /\ UNCHANGED reqs

Release(B) ==
    \E b \in 1..B.maxBooking, u \in B.users, now \in B.times :
        /\ B.strangers \/ (b \in BookingIds /\ bookings[b].user_id = u)
        /\ release_spot(b, u, now)
        /\ Within(B)
        /\ UNCHANGED reqs

ResizeLot(B) ==
    \E l \in 1..B.maxLot, n \in B.caps : \E f \in B.forms[l] :
        /\ edit_parking_lot(l, f.name, f.address, f.pincode, f.price, n)
        /\ Within(B)
        /\ UNCHANGED reqs

NextIn(B) ==
    CreateLot(B) \/ DeleteLot(B) \/ Reserve(B) \/ Release(B) \/ ResizeLot(B)

Next == NextIn(Core)

Spec == Init /\ [][Next]_vars

\* One application at a time.
InitControllers == Init /\ impl = "controllers"
InitApp == Init /\ impl = "app"
SpecControllers == InitControllers /\ [][Next]_vars
SpecApp == InitApp /\ [][Next]_vars

\* app.py with a single lot that is never deleted, and more users, spots
\* and bookings.
NextDeep == CreateLot(Deep) \/ Reserve(Deep) \/ Release(Deep) \/ ResizeLot(Deep)
SpecDeep == InitApp /\ [][NextDeep]_vars

\* One lot, with the capacities below 1 and the price of 0 that the
\* handlers do not validate.
Loose ==
    [users |-> 1..NumUsers, maxLot |-> 1, maxSpot |-> MaxSpotId,
     maxBooking |-> MaxBookingId, caps |-> (0 - BelowZero)..MaxCap,
     forms |-> [l \in 1..2 |-> {LotForm(l), FreeForm(l)}],
     times |-> Times, strangers |-> FALSE]
NextLoose == NextIn(Loose)
SpecLoose == Init /\ [][NextLoose]_vars

\* Two lots whose forms can carry the same name and address.
Named ==
    [users |-> 1..NumUsers, maxLot |-> MaxLotId, maxSpot |-> MaxSpotId,
     maxBooking |-> 1, caps |-> 1..MaxCap,
     forms |-> [l \in 1..(MaxLotId + 1) |->
                   {LotForm(k) : k \in 1..MaxLotId}],
     times |-> Times, strangers |-> FALSE]
NextNamed == NextIn(Named)
SpecNamed == Init /\ [][NextNamed]_vars

\* One lot of up to WideCap spots.
Wide ==
    [users |-> 1..WideUsers, maxLot |-> 1, maxSpot |-> WideSpotId,
     maxBooking |-> WideBookingId, caps |-> 1..WideCap,
     forms |-> [l \in 1..2 |-> {LotForm(l)}],
     times |-> Times, strangers |-> FALSE]
NextWide == NextIn(Wide)
SpecWide == Init /\ [][NextWide]_vars

\* One lot of one spot whose price an edit can change, and a clock that
\* moves.
Clocked ==
    [users |-> 1..NumUsers, maxLot |-> 1, maxSpot |-> 1,
     maxBooking |-> MaxBookingId, caps |-> 1..1,
     forms |-> [l \in 1..2 |-> {LotForm(k) : k \in 1..2}],
     times |-> ClockReadings, strangers |-> FALSE]
NextClocked == NextIn(Clocked)
SpecClocked == Init /\ [][NextClocked]_vars

\* -------------------------------------------------- the concurrent model
\* Each request is served by a thread of its own with a database session of
\* its own.  A SELECT outside a write transaction reads what is committed
\* at that moment; the statements of a flush and the commit after them hold
\* the write lock of SQLite, so they take effect as one step.  An object a
\* session has loaded keeps the column values it was loaded with.
InFlight == {t \in Threads : reqs[t].pc \notin {"idle", "done"}}

Finish(t, result) ==
    reqs' = [reqs EXCEPT ![t].pc = "done", ![t].result = result]

\* The request arrives: reserve_spot(lot_id) for the logged-in user u.
StartReserve(B) ==
    \E t \in Threads, u \in B.users, l \in 1..B.maxLot :
        /\ reqs[t].pc = "idle"
        /\ reqs' = [reqs EXCEPT ![t] =
              [Idle EXCEPT !.op = "Reserve", !.pc = "check", !.user = u,
                           !.lot = l, !.peers = InFlight]]
        /\ UNCHANGED <<impl, lots, spots, bookings, last>>

\* reserve_spot: the active-booking check and get_or_404.
ReserveCheck ==
    \E t \in Threads :
        /\ reqs[t].op = "Reserve" /\ reqs[t].pc = "check"
        /\ IF HasActiveBooking(reqs[t].user) THEN Finish(t, "AlreadyParked")
           ELSE IF reqs[t].lot \notin LotIds THEN Finish(t, "NotFound")
           ELSE reqs' = [reqs EXCEPT ![t].pc = "select"]
        /\ UNCHANGED <<impl, lots, spots, bookings, last>>

\* reserve_spot: the first available spot of the lot.
ReserveSelect ==
    \E t \in Threads :
        /\ reqs[t].op = "Reserve" /\ reqs[t].pc = "select"
        /\ IF FirstAvailable(reqs[t].lot) = None THEN Finish(t, "LotFull")
           ELSE reqs' = [reqs EXCEPT ![t].pc = "commit",
                                     ![t].spot = FirstAvailable(reqs[t].lot)[1]]
        /\ UNCHANGED <<impl, lots, spots, bookings, last>>

\* reserve_spot: UPDATE parking_spot ... WHERE id = spot, INSERT INTO
\* booking, COMMIT.  An UPDATE that matches no row raises StaleDataError
\* and the transaction is rolled back.
ReserveCommit(B) ==
    \E t \in Threads, now \in B.times :
        /\ reqs[t].op = "Reserve" /\ reqs[t].pc = "commit"
        /\ LET s == reqs[t].spot
               u == reqs[t].user
               b == NextRowId(BookingIds)
           IN IF s \notin SpotIds
              THEN /\ Finish(t, "StaleDataError")
                   /\ UNCHANGED <<spots, bookings>>
              ELSE /\ spots' = [spots EXCEPT ![s].status = "O",
                                             ![s].user_id = Some(u)]
                   /\ bookings' = (b :> [user_id |-> u,
                                         parking_lot_id |-> reqs[t].lot,
                                         parking_spot_id |-> s,
                                         in_time |-> now + IstOffset,
                                         out_time |-> None, cost |-> None])
                                  @@ bookings
                   /\ reqs' = [reqs EXCEPT ![t].pc = "done",
                                           ![t].result = "ok",
                                           ![t].booking = b]
        /\ UNCHANGED <<impl, lots, last>>
        /\ Within(B)

\* The request arrives: edit_parking_lot(lot_id) with the form f and the
\* capacity n.
StartResize(B) ==
    \E t \in Threads, l \in 1..B.maxLot, n \in B.caps : \E f \in B.forms[l] :
        /\ reqs[t].pc = "idle"
        /\ reqs' = [reqs EXCEPT ![t] =
              [Idle EXCEPT !.op = "ResizeLot", !.pc = "read", !.lot = l,
                           !.n = n, !.form = f, !.peers = InFlight]]
        /\ UNCHANGED <<impl, lots, spots, bookings, last>>

\* The spot numbers a ResizeLot session loads before its first write: all
\* spots of the lot in controllers.py when the capacity changes, the
\* Available spots in app.py when it shrinks.
LoadedNumbers(l, n) ==
    LET ids == IF n = lots[l].max_no_spots THEN {}
               ELSE IF impl = "controllers" THEN LotSpots(l)
               ELSE IF n < lots[l].max_no_spots THEN LotSpotsWith(l, "A")
               ELSE {}
    IN [s \in ids |-> spots[s].spot_number]

\* edit_parking_lot up to its first write: the lot, the count of occupied
\* spots, the checks, the spots of the lot, the spots to delete and (the
\* delete cascade) their bookings.
ResizeRead ==
    \E t \in Threads :
        /\ reqs[t].op = "ResizeLot" /\ reqs[t].pc = "read"
        /\ LET l == reqs[t].lot
               n == reqs[t].n
           IN IF l \notin LotIds THEN Finish(t, "NotFound")
              ELSE IF impl = "app" /\ n < 1 THEN Finish(t, "InvalidCapacity")
              ELSE IF n < occupied_spots(l)
              THEN Finish(t, "CapacityBelowOccupancy")
              ELSE LET victims ==
                         IF n < lots[l].max_no_spots
                         THEN IF impl = "controllers"
                              THEN RemoveControllers(l, n)
                              ELSE RemoveApp(l, n)
                         ELSE {}
                   IN reqs' = [reqs EXCEPT
                          ![t].pc = "commit",
                          ![t].old_max = lots[l].max_no_spots,
                          ![t].loaded = LoadedNumbers(l, n),
                          ![t].victims = victims,
                          ![t].orphans = BookingsOfSpots(victims)]
        /\ UNCHANGED <<impl, lots, spots, bookings, last>>

\* The spot number a session sees for row s of table tbl: the value it
\* loaded (normalized when the lot grows in controllers.py), else the row.
SessionNumber(r, tbl, s) ==
    IF s \in DOMAIN r.loaded
    THEN IF impl = "controllers" /\ r.n > r.old_max
         THEN format_spot_number(<<"str", r.loaded[s]>>)
         ELSE r.loaded[s]
    ELSE tbl[s].spot_number

\* The spots the session inserts when the lot grows.
InsertedSpots(r) ==
    LET first == NextRowId(SpotIds)
        k == r.n - r.old_max
        nums == {get_spot_number(SessionNumber(r, spots, s)) :
                    s \in DOMAIN r.loaded}
        highest_number == MaxOf({0} \cup nums)
        number(i) == IF impl = "controllers"
                     THEN format_spot_number(<<"int", highest_number + i>>)
                     ELSE <<"S">> \o DecStr(r.old_max + i)
    IN IF k > 0
       THEN [s \in first..(first + k - 1) |->
                NewSpot(r.lot, number(s - first + 1))]
       ELSE <<>>

\* controllers.py: the renumbering pass of a session over table tbl.  A
\* column is written only when the value differs from the one the session
\* holds.
SessionRenumber(r, tbl) ==
    LET ids == QueryAll({s \in DOMAIN tbl : tbl[s].parking_lot_id = r.lot})
        keyed == [i \in 1..Len(ids) |->
                     <<get_spot_number(SessionNumber(r, tbl, ids[i])), ids[i]>>]
        sorted == Items(SortByKey(keyed))
        pos(s) == CHOOSE i \in 1..Len(sorted) : sorted[i] = s
        new(s) == format_spot_number(<<"int", pos(s)>>)
    IN [s \in DOMAIN tbl |->
           IF s \in SeqRange(sorted) /\ new(s) # SessionNumber(r, tbl, s)
           THEN [tbl[s] EXCEPT !.spot_number = new(s)]
           ELSE tbl[s]]

\* edit_parking_lot from its first write to the commit: the DELETEs of the
\* chosen spots and of their bookings, the INSERTs, the UPDATE of the lot,
\* in controllers.py the renumbering, COMMIT.
ResizeCommit(B) ==
    \E t \in Threads :
        /\ reqs[t].op = "ResizeLot" /\ reqs[t].pc = "commit"
        /\ LET r == reqs[t]
               l == r.lot
               f == r.form
           IN IF l \notin LotIds
              THEN /\ Finish(t, "StaleDataError")
                   /\ UNCHANGED <<lots, spots, bookings>>
              ELSE IF UniqueViolation(l, f.name, f.address)
              THEN /\ Finish(t, "IntegrityError")
                   /\ UNCHANGED <<lots, spots, bookings>>
              ELSE LET written ==
                         [s \in SpotIds \ r.victims |->
                             IF s \in DOMAIN r.loaded
                                /\ SessionNumber(r, spots, s) # r.loaded[s]
                             THEN [spots[s] EXCEPT !.spot_number =
                                      SessionNumber(r, spots, s)]
                             ELSE spots[s]]
                       changed == InsertedSpots(r) @@ written
                   IN /\ spots' = IF impl = "controllers"
                                  THEN SessionRenumber(r, changed)
                                  ELSE changed
                      /\ bookings' = Restrict(bookings, BookingIds \ r.orphans)
                      /\ lots' = [lots EXCEPT ![l] =
                            [name |-> f.name, address |-> f.address,
                             pincode |-> f.pincode,
                             price_per_hour |-> f.price,
                             max_no_spots |-> IF r.n = r.old_max
                                              THEN lots[l].max_no_spots
                                              ELSE r.n]]
                      /\ Finish(t, "ok")
        /\ Within(B)
        /\ UNCHANGED <<impl, last>>

\* The response is sent and the thread is free again: the requests that
\* overlapped with it no longer name it.
Return ==
    \E t \in Threads :
        /\ reqs[t].pc = "done"
        /\ reqs' = [k \in Threads |->
                       IF k = t THEN Idle
                       ELSE [reqs[k] EXCEPT !.peers = @ \ {t}]]
        /\ UNCHANGED <<impl, lots, spots, bookings, last>>

ConcSpotId == 2

Conc ==
    [users |-> 1..NumUsers, maxLot |-> 1, maxSpot |-> ConcSpotId,
     maxBooking |-> MaxBookingId, caps |-> 1..MaxCap,
     forms |-> [l \in 1..2 |-> {LotForm(l)}],
     times |-> Times, strangers |-> FALSE]

NextConc ==
    \/ CreateLot(Conc)
    \/ StartReserve(Conc) \/ ReserveCheck \/ ReserveSelect \/ ReserveCommit(Conc)
    \/ StartResize(Conc) \/ ResizeRead \/ ResizeCommit(Conc)
    \/ Return

SpecConc == Init /\ [][NextConc]_vars

\* The same requests with room for the spots two overlapping grows insert.
RacingSpotId == 3

Racing == [Conc EXCEPT !.maxSpot = RacingSpotId]

NextRacing ==
    \/ CreateLot(Racing)
    \/ StartReserve(Racing) \/ ReserveCheck \/ ReserveSelect
    \/ ReserveCommit(Racing)
    \/ StartResize(Racing) \/ ResizeRead \/ ResizeCommit(Racing)
    \/ Return

SpecRacing == Init /\ [][NextRacing]_vars

\* ---------------------------------------------- the numbering functions
\* format_spot_number and get_spot_number applied to a pair of ordinals:
\* the variable last holds the ordinals and what the functions returned.
\* ord(c) of the characters a spot number can hold.
CodePoint(c) ==
    IF IsDigit(c) THEN 48 + DigitValue(c)
    ELSE IF c = "-" THEN 45
    ELSE IF c = "S" THEN 83
    ELSE 115

\* a < b of two Python strings: by code point, a proper prefix first.
RECURSIVE LexLess(_, _)
LexLess(a, b) ==
    IF b = <<>> THEN FALSE
    ELSE IF a = <<>> THEN TRUE
    ELSE IF CodePoint(Head(a)) # CodePoint(Head(b))
         THEN CodePoint(Head(a)) < CodePoint(Head(b))
    ELSE LexLess(Tail(a), Tail(b))

InitNumbering ==
    /\ impl = "controllers"
    /\ lots = <<>> /\ spots = <<>> /\ bookings = <<>>
    /\ reqs = [t \in Threads |-> Idle]
    /\ \E m \in Ordinals, n \in Ordinals :
          last = [op |-> "ordinals", m |-> m, n |-> n]

\* format_spot_number(i) for the two ordinals.
Encode ==
    /\ last.op = "ordinals"
    /\ last' = [op |-> "encoded", m |-> last.m, n |-> last.n,
                id_m |-> format_spot_number(<<"int", last.m>>),
                id_n |-> format_spot_number(<<"int", last.n>>)]
    /\ UNCHANGED <<impl, lots, spots, bookings, reqs>>

\* get_spot_number of an identifier format_spot_number returned.
Decode ==
    /\ last.op = "encoded"
    /\ last' = [op |-> "decoded", m |-> last.m, n |-> last.n,
                id_m |-> last.id_m, num |-> get_spot_number(last.id_m)]
    /\ UNCHANGED <<impl, lots, spots, bookings, reqs>>

\* format_spot_number of an identifier format_spot_number returned.
Reformat ==
    /\ last.op = "encoded"
    /\ last' = [op |-> "reformatted", m |-> last.m, n |-> last.n,
                id_m |-> last.id_m,
                again |-> format_spot_number(<<"str", last.id_m>>)]
    /\ UNCHANGED <<impl, lots, spots, bookings, reqs>>

\* The two identifiers compared as strings.
Compare ==
    /\ last.op = "encoded"
    /\ last' = [op |-> "compared", m |-> last.m, n |-> last.n,
                id_m |-> last.id_m, id_n |-> last.id_n,
                before |-> LexLess(last.id_m, last.id_n)]
    /\ UNCHANGED <<impl, lots, spots, bookings, reqs>>

NextNumbering == Encode \/ Decode \/ Reformat \/ Compare
SpecNumbering == InitNumbering /\ [][NextNumbering]_vars

\* ================================================================ claims
SpotNumber(s) == get_spot_number(spots[s].spot_number)
Occupied(l) == LotSpotsWith(l, "O")
Available(l) == LotSpotsWith(l, "A")
Succeeded(op) == last.op = op /\ last.result = "ok"
\* The spot numbers of lot l are exactly S1 .. S{max_no_spots}, each once.
NumberedOneToMax(l) ==
    /\ Cardinality(LotSpots(l)) = lots[l].max_no_spots
    /\ {spots[s].spot_number : s \in LotSpots(l)}
           = {<<"S">> \o DecStr(i) : i \in 1..lots[l].max_no_spots}

\* C1: in every reachable state every spot has at most one active booking
\* (a booking whose out_time is NULL).
C1_OneActiveBookingPerSpot ==
    \A b1, b2 \in ActiveBookings :
        bookings[b1].parking_spot_id = bookings[b2].parking_spot_id => b1 = b2

\* C2: in every reachable state every user has at most one active booking
\* across all lots, and right after a successful Reserve the reserving user
\* has exactly one.
C2_OneActiveBookingPerUser ==
    /\ \A b1, b2 \in ActiveBookings :
          bookings[b1].user_id = bookings[b2].user_id => b1 = b2
    /\ Succeeded("Reserve") => Cardinality(ActiveOfUser(last.user)) = 1

\* A Reserve has just succeeded for a user who holds a closed booking in
\* another lot.
C2_Witness ==
    /\ Succeeded("Reserve")
    /\ \E b \in BookingIds \ ActiveBookings :
          /\ bookings[b].user_id = last.user
          /\ bookings[b].parking_lot_id # last.lot

\* C3: a Release by the owner of a booking whose out_time is already set
\* answers AlreadyReleased and leaves the booking's out_time and cost and
\* its spot's status and occupant as they were.
C3_ReleaseOfClosedBookingRefused ==
    [][\A b \in BookingIds :
          (/\ bookings[b].out_time # None
           /\ last'.op = "Release"
           /\ last'.booking = b
           /\ last'.user = bookings[b].user_id)
          => /\ last'.result = "AlreadyReleased"
             /\ b \in DOMAIN bookings'
             /\ bookings'[b].out_time = bookings[b].out_time
             /\ bookings'[b].cost = bookings[b].cost
             /\ spots' = spots]_vars

\* C4: ResizeLot never deletes a spot whose status is Occupied: every such
\* spot is still there, Occupied, after the request.
C4_ResizeKeepsOccupiedSpots ==
    [][last'.op = "ResizeLot" =>
          \A s \in SpotIds :
              spots[s].status = "O" =>
                  s \in DOMAIN spots' /\ spots'[s].status = "O"]_vars

\* A ResizeLot has just deleted spots of a lot that has an Occupied spot.
C4_Witness ==
    /\ Succeeded("ResizeLot")
    /\ last.removed # {}
    /\ Occupied(last.lot) # {}

\* C5: under parking_app/controllers.py, right after a successful ResizeLot
\* the spot numbers of the lot are exactly S1 .. S{max_no_spots}, without
\* duplicates or gaps.
C5_ControllersResizeNumbersContiguous ==
    (impl = "controllers" /\ Succeeded("ResizeLot"))
        => NumberedOneToMax(last.lot)

\* A ResizeLot of controllers.py has just deleted a spot with a lower row
\* id than a spot it kept, which is Occupied.
C5_Witness ==
    /\ impl = "controllers"
    /\ Succeeded("ResizeLot")
    /\ \E s \in Occupied(last.lot), r \in last.removed : r < s

\* C6: under app.py, right after a successful ResizeLot the spot numbers of
\* the lot are exactly S1 .. S{max_no_spots}, without duplicates or gaps.
C6_AppResizeNumbersContiguous ==
    (impl = "app" /\ Succeeded("ResizeLot")) => NumberedOneToMax(last.lot)

\* The spot a Reserve step occupies has the lowest number among the spots
\* of the lot that were Available before it.
ReserveTakesLowestNumber ==
    (last'.op = "Reserve" /\ last'.result = "ok") =>
        \A s \in Available(last'.lot) :
            spots'[s].status = "O" =>
                \A t \in Available(last'.lot) : SpotNumber(s) <= SpotNumber(t)

\* C9: under parking_app/controllers.py a successful Reserve occupies the
\* Available spot of the lot with the lowest spot number.
C9_ControllersReserveLowestNumber ==
    [][impl = "controllers" => ReserveTakesLowestNumber]_vars

\* A Reserve of controllers.py has just taken a spot of a lot that has
\* another Available spot left, the two numbered consecutively although
\* their row ids are not consecutive.
C9_Witness ==
    /\ impl = "controllers"
    /\ Succeeded("Reserve")
    /\ \E b \in ActiveOfUser(last.user) :
          \E t \in Available(last.lot) :
              LET s == bookings[b].parking_spot_id
              IN /\ s \in LotSpots(last.lot)
                 /\ SpotNumber(t) = SpotNumber(s) + 1
                 /\ t > s + 1

\* C10: under app.py a successful Reserve occupies the Available spot of the
\* lot with the lowest spot number.
C10_AppReserveLowestNumber ==
    [][impl = "app" => ReserveTakesLowestNumber]_vars

\* Two requests that both have their answer and were in flight together.
Together(t1, t2) ==
    /\ t1 # t2
    /\ reqs[t1].pc = "done" /\ reqs[t2].pc = "done"
    /\ t1 \in reqs[t2].peers \/ t2 \in reqs[t1].peers
    /\ reqs[t1].lot = reqs[t2].lot

\* The spots the Reserve requests among ts took.
TakenBy(ts) ==
    {reqs[t].spot : t \in {k \in ts : reqs[k].op = "Reserve"
                                      /\ reqs[k].result = "ok"}}

\* C7: two Reserve requests of different users, neither of them parked, in
\* flight together on a lot that had exactly one Available spot: exactly one
\* succeeds, the other is answered LotFull, and no spot of the lot ends with
\* two active bookings.
C7_OneOfTwoReservesWins ==
    \A t1, t2 \in Threads :
        (/\ Together(t1, t2)
         /\ reqs[t1].op = "Reserve" /\ reqs[t2].op = "Reserve"
         /\ reqs[t1].user # reqs[t2].user
         /\ {reqs[t1].result, reqs[t2].result} \subseteq {"ok", "LotFull"}
         /\ Cardinality(LotSpotsWith(reqs[t1].lot, "A"))
                + Cardinality(TakenBy({t1, t2})) = 1)
        => /\ {reqs[t1].result, reqs[t2].result} = {"ok", "LotFull"}
           /\ \A s \in LotSpots(reqs[t1].lot) :
                  Cardinality(ActiveOfSpot(s)) <= 1

\* C8: a Reserve that succeeded and a ResizeLot of the same lot, in flight
\* together: the ResizeLot has not deleted the spot the Reserve selected,
\* and the booking the Reserve made references an existing spot that is
\* Occupied by the booking's user.
C8_ResizeSparesSelectedSpot ==
    \A t1, t2 \in Threads :
        (/\ Together(t1, t2)
         /\ reqs[t1].op = "Reserve" /\ reqs[t1].result = "ok"
         /\ reqs[t2].op = "ResizeLot")
        => /\ reqs[t1].spot \in SpotIds
           /\ reqs[t1].booking \in ActiveBookings
           /\ LET b == bookings[reqs[t1].booking]
              IN /\ b.parking_spot_id \in SpotIds
                 /\ spots[b.parking_spot_id].status = "O"
                 /\ spots[b.parking_spot_id].user_id = Some(b.user_id)

\* A ResizeLot request for a capacity among caps that is smaller than the
\* number of Occupied spots of the lot answers CapacityBelowOccupancy and
\* changes no lot, no spot and no booking.
ResizeBelowOccupancyRefused(caps) ==
    \A l \in LotIds, n \in caps : \A f \in Core.forms[l] :
        (/\ n < Cardinality(Occupied(l))
         /\ edit_parking_lot(l, f.name, f.address, f.pincode, f.price, n))
        => /\ last'.result = "CapacityBelowOccupancy"
           /\ lots' = lots /\ spots' = spots /\ bookings' = bookings

\* C11: ResizeLot with a new capacity smaller than the number of Occupied
\* spots answers CapacityBelowOccupancy and changes nothing: the lot's name,
\* address, pincode, price and max_no_spots and every spot's existence,
\* number, status and occupant.
C11_ResizeBelowOccupancyRefused ==
    [][ResizeBelowOccupancyRefused(Core.caps)]_vars

\* C11, for the new capacities of at least 1: ResizeLot with
\* 1 <= new capacity < number of Occupied spots answers
\* CapacityBelowOccupancy and changes nothing.
C11_ResizeBelowOccupancyRefused_FromOne ==
    [][ResizeBelowOccupancyRefused({n \in Core.caps : n >= 1})]_vars

\* app.py has just refused to shrink a lot with two Occupied spots (the
\* requested capacity was 1: it refuses 0 as InvalidCapacity).
C11_Witness ==
    /\ impl = "app"
    /\ last.op = "ResizeLot" /\ last.result = "CapacityBelowOccupancy"
    /\ Cardinality(Occupied(last.lot)) = 2

\* C12: under parking_app/controllers.py a ResizeLot request for a capacity
\* below 1, on a lot that has at least one spot, answers InvalidCapacity
\* and leaves the lot and its spots as they were, whether or not the lot
\* has an Occupied spot; so no successful ResizeLot takes such a lot to
\* max_no_spots < 1.
C12_ControllersResizeBelowOneRefused ==
    [][impl = "controllers" =>
          \A l \in {k \in LotIds : lots[k].max_no_spots >= 1} :
              /\ \A n \in {c \in Core.caps : c < 1} : \A f \in Core.forms[l] :
                    edit_parking_lot(l, f.name, f.address, f.pincode,
                                     f.price, n)
                    => /\ last'.result = "InvalidCapacity"
                       /\ lots' = lots /\ spots' = spots
                       /\ bookings' = bookings
              /\ (last'.op = "ResizeLot" /\ last'.result = "ok"
                  /\ last'.lot = l)
                    => lots'[l].max_no_spots >= 1]_vars

\* C13: in every state reached by atomic CreateLot, Reserve, Release,
\* ResizeLot and DeleteLot requests, max_no_spots of every lot is the number
\* of spots of the lot, so that max_no_spots minus the number of Occupied
\* spots (the dashboard's available_spots) is the number of Available spots.
C13_CapacityIsSpotCount ==
    \A l \in LotIds :
        /\ lots[l].max_no_spots = Cardinality(LotSpots(l))
        /\ lots[l].max_no_spots - Cardinality(Occupied(l))
               = Cardinality(Available(l))

\* C14: a Reserve by a user who has an active booking, in whatever lot,
\* answers AlreadyParked, changes no spot's status or occupant and creates
\* no booking.
C14_ReserveOfParkedUserRefused ==
    [][\A u \in Core.users :
          (/\ ActiveOfUser(u) # {}
           /\ last'.op = "Reserve" /\ last'.user = u)
          => /\ last'.result = "AlreadyParked"
             /\ spots' = spots
             /\ bookings' = bookings]_vars

\* A Reserve has just been refused as AlreadyParked in a lot with an
\* Available spot, for a user whose active booking is in another lot.
C14_Witness ==
    /\ last.op = "Reserve" /\ last.result = "AlreadyParked"
    /\ last.lot \in LotIds
    /\ Available(last.lot) # {}
    /\ \E b \in ActiveOfUser(last.user) :
          bookings[b].parking_lot_id # last.lot

\* C15: a Release asked by a user other than the owner of the booking
\* answers NotYourBooking and leaves the booking (out_time, cost) and its
\* spot (status, occupant) as they were.
C15_ReleaseByStrangerRefused ==
    [][\A b \in BookingIds :
          (/\ last'.op = "Release"
           /\ last'.booking = b
           /\ last'.user # bookings[b].user_id)
          => /\ last'.result = "NotYourBooking"
             /\ bookings' = bookings
             /\ spots' = spots]_vars

\* A Release of an active booking has just been refused as NotYourBooking.
C15_Witness ==
    /\ last.op = "Release" /\ last.result = "NotYourBooking"
    /\ last.booking \in ActiveBookings
    /\ spots[bookings[last.booking].parking_spot_id].status = "O"

\* C16: a DeleteLot of a lot with an Occupied spot answers LotHasOccupants
\* and changes nothing; a DeleteLot that succeeds removes the lot, all its
\* spots and all bookings of those spots, and leaves every other lot, spot
\* and booking as it was.
C16_DeleteLotAllOrNothing ==
    [][\A l \in LotIds :
          (last'.op = "DeleteLot" /\ last'.lot = l)
          => /\ Occupied(l) # {}
                => /\ last'.result = "LotHasOccupants"
                   /\ lots' = lots /\ spots' = spots /\ bookings' = bookings
             /\ last'.result = "ok"
                => LET gone == {b \in BookingIds :
                                  bookings[b].parking_spot_id \in LotSpots(l)}
                   IN /\ DOMAIN lots' = LotIds \ {l}
                      /\ DOMAIN spots' = SpotIds \ LotSpots(l)
                      /\ DOMAIN bookings' = BookingIds \ gone
                      /\ \A k \in DOMAIN lots' : lots'[k] = lots[k]
                      /\ \A s \in DOMAIN spots' : spots'[s] = spots[s]
                      /\ \A b \in DOMAIN bookings' :
                            bookings'[b] = bookings[b]]_vars

\* A DeleteLot has just removed a lot with its spots and its first booking,
\* while another lot keeps its Occupied spot and the booking on it.
C16_Witness ==
    /\ Succeeded("DeleteLot")
    /\ last.removed # {}
    /\ BookingIds = {2}
    /\ \E l \in LotIds : Occupied(l) # {}

\* C17: every booking a DeleteLot removes is closed (its out_time is set):
\* DeleteLot never removes an active booking, whatever atomic requests came
\* before it, a Release repeated on a closed booking included.
C17_DeleteLotRemovesClosedBookingsOnly ==
    [][last'.op = "DeleteLot" =>
          \A b \in BookingIds \ DOMAIN bookings' : ~IsActive(b)]_vars

\* C18: a CreateLot with a capacity below 1 or a price of 0 or less answers
\* InvalidSpec and creates no lot and no spot; so the lot a CreateLot has
\* just created has max_no_spots >= 1 and price_per_hour > 0.
C18_CreateLotValidatesSpec ==
    Succeeded("CreateLot") =>
        /\ lots[last.lot].max_no_spots >= 1
        /\ lots[last.lot].price_per_hour > 0

\* C19: under parking_app (controllers.py with models.py), in every state
\* reached through CreateLot and ResizeLot no two lots have the same name
\* and no two lots have the same address: a CreateLot that reuses a name or
\* an address answers DuplicateLot and creates nothing.
C19_ControllersLotNamesUnique ==
    impl = "controllers" =>
        \A l1, l2 \in LotIds :
            l1 # l2 => /\ lots[l1].name # lots[l2].name
                       /\ lots[l1].address # lots[l2].address

\* C20: under parking_app/controllers.py the cost of the booking a Release
\* has just closed is >= 0, whatever the start time and the clock reading
\* at the release.
C20_ControllersCostNonNegative ==
    (impl = "controllers" /\ Succeeded("Release"))
        => /\ last.booking \in BookingIds
           /\ bookings[last.booking].cost # None
           /\ bookings[last.booking].cost[1] >= 0

\* C21: for every ordinal n >= 1, get_spot_number (strip the S tag in
\* either case, parse the integer) of the identifier
\* format_spot_number(n) is n, and format_spot_number of that identifier
\* is the identifier itself.
C21_NumberingRoundTrips ==
    /\ last.op = "decoded" => last.num = last.m
    /\ last.op = "reformatted" => last.again = last.id_m

\* The identifier of an ordinal of three digits has been decoded.
C21_Witness ==
    /\ last.op = "decoded"
    /\ last.m >= 100
    /\ Len(last.id_m) >= 4

\* C22: for all ordinals m < n (1 <= m < n < 10^6, among them ordinals of
\* different digit counts) the identifier format_spot_number(m) sorts
\* before format_spot_number(n) as a string.
C22_NumberingSortsLikeOrdinals ==
    (last.op = "compared" /\ last.m < last.n) => last.before

\* C23: a ResizeLot that shrinks a lot (new capacity below max_no_spots and
\* not below the number of Occupied spots) deletes exactly
\* |Available| - (new capacity - |Occupied|) spots, all of them Available,
\* and no spot it keeps Available has a higher number than one it deletes.
C23_ShrinkDeletesHighestAvailable ==
    [][\A l \in LotIds :
          (/\ last'.op = "ResizeLot" /\ last'.result = "ok"
           /\ last'.lot = l
           /\ lots'[l].max_no_spots < lots[l].max_no_spots)
          => LET deleted == SpotIds \ DOMAIN spots'
                 to_delete == Cardinality(Available(l))
                                - (lots'[l].max_no_spots
                                     - Cardinality(Occupied(l)))
             IN /\ deleted \subseteq Available(l)
                /\ Cardinality(deleted) = to_delete
                /\ \A d \in deleted, a \in Available(l) \ deleted :
                      SpotNumber(d) >= SpotNumber(a)]_vars

\* C24: a ResizeLot of parking_app/controllers.py changes nothing but the
\* spot number on a spot that survives it: the spot keeps its id, lot,
\* status, occupant and bookings; and of two surviving spots of the lot the
\* one with the smaller number before has the smaller number after.
C24_ControllersRenumberKeepsSpots ==
    [][(impl = "controllers" /\ last'.op = "ResizeLot"
        /\ last'.result = "ok")
       => LET kept == SpotIds \cap DOMAIN spots'
              number(s) == get_spot_number(spots'[s].spot_number)
          IN /\ \A s \in kept :
                   /\ spots'[s] = [spots[s] EXCEPT !.spot_number =
                                                spots'[s].spot_number]
                   /\ \A b \in BookingsOfSpots({s}) :
                         /\ b \in DOMAIN bookings'
                         /\ bookings'[b] = bookings[b]
             /\ \A s1, s2 \in kept \cap LotSpots(last'.lot) :
                   SpotNumber(s1) < SpotNumber(s2)
                       => number(s1) < number(s2)]_vars

\* A ResizeLot of controllers.py has just deleted the lowest-numbered spot
\* of a lot and kept two Occupied spots, which it renumbered S1 and S2.
C24_Witness ==
    /\ impl = "controllers"
    /\ Succeeded("ResizeLot")
    /\ last.removed # {}
    /\ Cardinality(Occupied(last.lot)) = 2
    /\ \A s \in Occupied(last.lot) : \E r \in last.removed : r < s
    /\ \A s \in Occupied(last.lot) : ActiveOfSpot(s) # {}

\* C25: a ResizeLot that grows a lot (new capacity above max_no_spots)
\* creates exactly (new capacity - max_no_spots) spots, all Available with
\* no occupant, deletes none, and numbers the new spots above every spot
\* the lot already had, so that no number of the lot is used twice.
C25_GrowAddsHigherNumbers ==
    [][\A l \in LotIds :
          (/\ last'.op = "ResizeLot" /\ last'.result = "ok"
           /\ last'.lot = l
           /\ lots'[l].max_no_spots > lots[l].max_no_spots)
          => LET added == DOMAIN spots' \ SpotIds
                 number(s) == get_spot_number(spots'[s].spot_number)
             IN /\ SpotIds \subseteq DOMAIN spots'
                /\ Cardinality(added)
                      = lots'[l].max_no_spots - lots[l].max_no_spots
                /\ \A a \in added :
                      /\ spots'[a].parking_lot_id = l
                      /\ spots'[a].status = "A"
                      /\ spots'[a].user_id = None
                      /\ \A s \in LotSpots(l) : number(a) > number(s)]_vars

\* C26: a ResizeLot whose new capacity is the lot's max_no_spots changes no
\* spot: none is created or deleted, and no number, status or occupant
\* changes (the renumbering pass of controllers.py leaves every number as
\* it was).
C26_SameCapacityKeepsSpots ==
    [][\A l \in LotIds :
          (/\ last'.op = "ResizeLot" /\ last'.result = "ok"
           /\ last'.lot = l
           /\ lots'[l].max_no_spots = lots[l].max_no_spots)
          => spots' = spots]_vars

\* controllers.py has just served a ResizeLot that created and deleted
\* nothing, on a lot of three spots of which one is Occupied.
C26_Witness ==
    /\ impl = "controllers"
    /\ Succeeded("ResizeLot")
    /\ last.removed = {} /\ last.added = {}
    /\ Cardinality(LotSpots(last.lot)) = 3
    /\ Cardinality(Occupied(last.lot)) = 1

\* C27: a successful Reserve turns exactly one Available spot of the lot
\* into an Occupied spot of the reserving user and adds exactly one booking,
\* under a fresh id, with out_time and cost NULL, for that user, lot and
\* spot; every other spot and every booking that existed, closed or active,
\* stays as it was, and the lot has one Available spot less.
C27_ReserveFrame ==
    [][(last'.op = "Reserve" /\ last'.result = "ok")
       => LET u == last'.user
              l == last'.lot
          IN \E s \in Available(l) :
                /\ spots' = [spots EXCEPT ![s].status = "O",
                                          ![s].user_id = Some(u)]
                /\ \E b \in DOMAIN bookings' \ BookingIds :
                      /\ DOMAIN bookings' = BookingIds \cup {b}
                      /\ bookings'[b].user_id = u
                      /\ bookings'[b].parking_lot_id = l
                      /\ bookings'[b].parking_spot_id = s
                      /\ bookings'[b].out_time = None
                      /\ bookings'[b].cost = None
                /\ \A b \in BookingIds : bookings'[b] = bookings[b]
                /\ Cardinality({a \in DOMAIN spots' :
                                   /\ spots'[a].parking_lot_id = l
                                   /\ spots'[a].status = "A"})
                      = Cardinality(Available(l)) - 1]_vars

\* A Reserve has just given a user a second booking on the spot of the
\* user's closed booking, while another spot is Occupied.
C27_Witness ==
    /\ Succeeded("Reserve")
    /\ \E b1 \in BookingIds \ ActiveBookings, b2 \in ActiveBookings :
          /\ bookings[b1].user_id = last.user
          /\ bookings[b2].user_id = last.user
          /\ bookings[b1].parking_spot_id = bookings[b2].parking_spot_id
    /\ \E s \in SpotIds : spots[s].status = "O"
                          /\ spots[s].user_id # Some(last.user)

\* C28: under app.py a successful Release of an active booking by its owner
\* at the clock reading now sets out_time to now (on the Asia/Kolkata wall
\* clock the column keeps) and cost to
\* round(max(0, hours from in_time to now) * price_per_hour, 2) with the
\* price the lot has at the release, makes the booking's spot Available
\* with no occupant, and changes no other spot and no other booking.
C28_AppReleaseEffect ==
    [][impl = "app" =>
          \A b \in ActiveBookings, now \in ClockReadings :
              release_spot(b, bookings[b].user_id, now)
              => LET s == bookings[b].parking_spot_id
                     price == lots[bookings[b].parking_lot_id].price_per_hour
                     minutes == (now + IstOffset) - bookings[b].in_time
                     clamped == IF minutes < 0 THEN 0 ELSE minutes
                 IN /\ last'.result = "ok"
                    /\ bookings' = [bookings EXCEPT
                          ![b].out_time = Some(now + IstOffset),
                          ![b].cost = Some(RoundHalfEven(
                                         clamped * price * 100,
                                         MinutesPerHour))]
                    /\ spots' = [spots EXCEPT ![s].status = "A",
                                              ![s].user_id = None]]_vars

\* app.py has just closed a booking of 45 minutes at 90 per hour, for
\* 67.50, and the spot is Available again.
C28_Witness ==
    /\ impl = "app"
    /\ Succeeded("Release")
    /\ bookings[last.booking].out_time[1] - bookings[last.booking].in_time = 45
    /\ bookings[last.booking].cost = Some(6750)
    /\ spots[bookings[last.booking].parking_spot_id].status = "A"

\* C29: a Reserve by a user with no active booking, on a lot that exists,
\* answers LotFull and changes no spot and no booking when the lot has no
\* Available spot, and succeeds with a new booking when it has one.
C29_ReserveFullOrSucceeds ==
    [][(/\ last'.op = "Reserve"
        /\ ActiveOfUser(last'.user) = {}
        /\ last'.lot \in LotIds)
       => IF Available(last'.lot) = {}
          THEN /\ last'.result = "LotFull"
               /\ spots' = spots
               /\ bookings' = bookings
          ELSE /\ last'.result = "ok"
               /\ Cardinality(DOMAIN bookings') = Cardinality(BookingIds) + 1
               /\ \E b \in DOMAIN bookings' \ BookingIds :
                     /\ bookings'[b].user_id = last'.user
                     /\ bookings'[b].parking_lot_id = last'.lot
                     /\ bookings'[b].out_time = None]_vars

\* A Reserve has just been refused as LotFull: the user has no active
\* booking and every spot of the lot, which has some, is Occupied.
C29_Witness ==
    /\ last.op = "Reserve" /\ last.result = "LotFull"
    /\ ActiveOfUser(last.user) = {}
    /\ last.lot \in LotIds
    /\ LotSpots(last.lot) # {}
    /\ Available(last.lot) = {}

\* C30: every booking that is closed before a ResizeLot still exists after
\* it, with the same out_time and cost.
C30_ResizeKeepsClosedBookings ==
    [][last'.op = "ResizeLot"
       => \A b \in BookingIds \ ActiveBookings :
             /\ b \in DOMAIN bookings'
             /\ bookings'[b].out_time = bookings[b].out_time
             /\ bookings'[b].cost = bookings[b].cost]_vars

\* C31: a CreateLot that succeeds with capacity n >= 1 gives the new lot
\* exactly n spots, numbered S1 .. Sn each once, all Available with no
\* occupant, and changes no spot and no booking that existed before.
C31_CreateLotMakesItsSpots ==
    [][(/\ last'.op = "CreateLot" /\ last'.result = "ok"
        /\ lots'[last'.lot].max_no_spots >= 1)
       => LET l == last'.lot
              n == lots'[l].max_no_spots
              made == {s \in DOMAIN spots' : spots'[s].parking_lot_id = l}
          IN /\ l \notin LotIds
             /\ Cardinality(made) = n
             /\ {spots'[s].spot_number : s \in made}
                    = {<<"S">> \o DecStr(i) : i \in 1..n}
             /\ \A s \in made : /\ spots'[s].status = "A"
                                /\ spots'[s].user_id = None
             /\ \A s \in SpotIds : /\ s \in DOMAIN spots'
                                   /\ spots'[s] = spots[s]
             /\ bookings' = bookings]_vars

\* A lot of two spots has just been created next to a lot that has an
\* Occupied spot and an active booking.
C31_Witness ==
    /\ Succeeded("CreateLot")
    /\ lots[last.lot].max_no_spots = 2
    /\ Cardinality(LotSpots(last.lot)) = 2
    /\ \E k \in LotIds \ {last.lot} : Occupied(k) # {}
    /\ ActiveBookings # {}

C33_SpotsAgreeWithBookings ==
    /\ \A s \in SpotIds :
          /\ (spots[s].status = "O") <=> (Cardinality(ActiveOfSpot(s)) = 1)
          /\ \A b \in ActiveOfSpot(s) :
                spots[s].status = "O"
                => spots[s].user_id = Some(bookings[b].user_id)
    /\ \A b \in ActiveBookings :
          /\ bookings[b].parking_spot_id \in SpotIds
          /\ spots[bookings[b].parking_spot_id].parking_lot_id
                 = bookings[b].parking_lot_id

\* C34: when two Reserve requests of the same user were in flight together
\* and both have their answer, they have not both succeeded, and the user
\* has at most one active booking.
C34_SameUserReservesOnce ==
    \A t1, t2 \in Threads :
        (/\ t1 # t2
         /\ reqs[t1].pc = "done" /\ reqs[t2].pc = "done"
         /\ reqs[t1].op = "Reserve" /\ reqs[t2].op = "Reserve"
         /\ reqs[t1].user = reqs[t2].user
         /\ t1 \in reqs[t2].peers \/ t2 \in reqs[t1].peers)
        => /\ ~(reqs[t1].result = "ok" /\ reqs[t2].result = "ok")
           /\ Cardinality(ActiveOfUser(reqs[t1].user)) <= 1

\* C35: when two ResizeLot requests on the same lot were in flight together
\* and both have completed, the lot's max_no_spots is the number of its
\* spots and no two of its spots have the same number.
C35_TwoResizesLeaveLotConsistent ==
    \A t1, t2 \in Threads :
        (/\ Together(t1, t2)
         /\ reqs[t1].op = "ResizeLot" /\ reqs[t2].op = "ResizeLot"
         /\ reqs[t1].lot \in LotIds)
        => LET l == reqs[t1].lot
           IN /\ lots[l].max_no_spots = Cardinality(LotSpots(l))
              /\ \A s1, s2 \in LotSpots(l) :
                    spots[s1].spot_number = spots[s2].spot_number => s1 = s2

====
